---- MODULE Spec2Model ----
(***************************************************************************)
(* CommissionCalculator:                                                   *)
(*   the commission engine, src/src/services/calculator.ts                 *)
(*     (calculateBatchCommission);                                         *)
(*   the member form, src/src/components/UserForm.tsx, as the members      *)
(*     page opens it;                                                      *)
(*   the calculator, src/src/hooks/useCalculator.ts (handleCalculate).     *)
(*                                                                         *)
(* Numbers.  The engine computes on IEEE doubles; the model computes on    *)
(* exact integers.  A rate is held in tenths of a percent (the rate inputs *)
(* of UserForm step by 0.1), an input amount in whole currency units, and  *)
(* every commission as a numerator over MoneyDen = RateDen * RateDen, so   *)
(* that  amount * (rate / 100)  and the losing base                        *)
(*   losing - (casino * rate/100 + slot * rate/100)                        *)
(* and the product of that base with a further rate are all exact.         *)
(***************************************************************************)
EXTENDS Integers, Sequences, FiniteSets, TLC

\* ------------------------------------------- bounds: the input amounts
CasinoIn == 200
SlotIn == 300
LosingIn == 2
\* The iterations of one upline walk are counted modulo HopWrap, which
\* keeps the count finite on a walk that does not end.
HopWrap == 4

\* ------------------------------------------------------- number encoding
RateSteps == 10
PercentBase == 100
RoundScale == 10000
RateDen == PercentBase * RateSteps
MoneyDen == RateDen * RateDen

\* Three members: a performer with two ancestors, or two performers under
\* one parent.  UnknownId is an id no member has; NoParent is parentId null.
UserIds == {1, 2, 3}
InputLengths == {0, 1, 2}
NoParent == 0
UnknownId == Cardinality(UserIds) + 1

Types == <<"casino", "slot", "losing">>

RateProfiles ==
    { [casinoRate |-> 0,  slotRate |-> 0,  losingRate |-> 0],
      [casinoRate |-> 5,  slotRate |-> 10, losingRate |-> 100],
      [casinoRate |-> 10, slotRate |-> 10, losingRate |-> 200] }

AmountProfiles ==
    { [casino |-> CasinoIn, slot |-> 0,      losing |-> 0],
      [casino |-> 0,        slot |-> 0,      losing |-> LosingIn],
      [casino |-> CasinoIn, slot |-> SlotIn, losing |-> LosingIn] }

ZeroAmounts == [casino |-> 0, slot |-> 0, losing |-> 0]

VARIABLES
    allUsers,          \* id -> member record (the allUsers argument)
    inputs,            \* the inputs argument: sequence of BatchInput
    netInputs,         \* netInputs of step 2
    resultsMap,        \* the Map "userId-source" -> result, in insertion order
    pc,                \* "net", "types", "walk", "done"
    i,                 \* position of the for loop over netInputs
    t,                 \* position of the forEach over Types
    amount,            \* amount of the current type, numerator over RateDen
    currentChildRate,  \* locals of the upline walk
    currentParentId,
    hops,              \* iterations of the current while loop, mod HopWrap
    result,            \* the returned array
    calls,             \* the earlier calls of the caller: arguments, result
    db,                \* the users collection: id -> stored member record
    form,              \* the UserForm the members page shows, or none
    page,              \* the state of useCalculator and of its handler
    logs               \* the calculation_logs collection

engineVars == <<allUsers, inputs, netInputs, resultsMap, pc, i, t, amount,
                currentChildRate, currentParentId, hops, result, calls>>

memberVars == <<db, form>>

pageVars == <<page, logs>>

vars == <<engineVars, memberVars, pageVars>>

\* ------------------------------------------------------------- helpers
IsMember(id) == id \in DOMAIN allUsers

\* A plausible slip: a parent that is not found is replaced by the first
\* member of the list (allUsers.find(...) || allUsers[0]).
FindUserOrFirst(id) ==
    IF id \in DOMAIN allUsers THEN id
    ELSE CHOOSE u \in DOMAIN allUsers : \A v \in DOMAIN allUsers : u <= v

\* allUsers.find(u => u.id === id): the member's id, or NoParent for
\* undefined.
FindUser(id) == IF id \in DOMAIN allUsers THEN id ELSE NoParent

\* A plausible slip: the results map lives outside the function and is
\* carried from one call to the next.
NewResultsMapShared(old) == old

\* const resultsMap = new Map() at the entry of every call (line 92).
NewResultsMap(old) == <<>>

RateOf(user, type) ==
    IF type = "casino" THEN user.casinoRate
    ELSE IF type = "slot" THEN user.slotRate
    ELSE user.losingRate

\* Math.round of the rational num/den (den > 0): floor(num/den + 1/2).
MathRound(num, den) == (2 * num + den) \div (2 * den)

\* Math.round(rawDiff * 10000) / 10000, on a difference of two rates held
\* in 1/RateSteps percent; the result is again in 1/RateSteps percent.
RoundRate(rawDiff) ==
    (MathRound(rawDiff * RoundScale, RateSteps) * RateSteps) \div RoundScale

\* A plausible slip: the ancestor is paid its whole rate, not the difference.
DiffRateWholeRate(parentRate, childRate) == RoundRate(parentRate)

\* A plausible slip: the size of the difference is taken, whatever its sign.
DiffRateAbs(parentRate, childRate) ==
    IF parentRate >= childRate
    THEN (((2 * ((parentRate - childRate) * RoundScale) + RateSteps)
             \div (2 * RateSteps)) * RateSteps) \div RoundScale
    ELSE (((2 * ((childRate - parentRate) * RoundScale) + RateSteps)
             \div (2 * RateSteps)) * RateSteps) \div RoundScale

\* rawDiff and diffRate of the walk (lines 275-276).
DiffRate(parentRate, childRate) == RoundRate(parentRate - childRate)

\* A plausible slip: every ancestor becomes the level to compare with.
NextChildRateAlwaysParent(parentRate, childRate, diffRate) == parentRate

\* A plausible slip: currentChildRate is not moved up after an ancestor was
\* paid, so every ancestor is compared with the performer.
NextChildRateKeepsChild(parentRate, childRate, diffRate) == childRate

\* currentChildRate after an ancestor (lines 280-290): it only ever rises.
NextChildRate(parentRate, childRate, diffRate) ==
    IF diffRate > 0 THEN parentRate
    ELSE IF parentRate > childRate THEN parentRate
    ELSE childRate

\* inputMap.get(id) || {0,0,0}: the last input of a performer wins.
InputOf(id) ==
    LET hits == {k \in 1 .. Len(inputs) : inputs[k].performerId = id}
    IN  IF hits = {} THEN ZeroAmounts
        ELSE inputs[CHOOSE k \in hits : \A j \in hits : j <= k].amounts

\* A plausible slip: every channel of childrenSum adds up the child's
\* casino amount.
RECURSIVE SumOverCasinoOnly(_, _)
SumOverCasinoOnly(S, field) ==
    IF S = {} THEN 0
    ELSE LET c == CHOOSE x \in S : TRUE
         IN  InputOf(c).casino + SumOverCasinoOnly(S \ {c}, field)

RECURSIVE SumOver(_, _)
SumOver(S, field) ==
    IF S = {} THEN 0
    ELSE LET c == CHOOSE x \in S : TRUE
         IN  (IF field = "casino" THEN InputOf(c).casino
              ELSE IF field = "slot" THEN InputOf(c).slot
              ELSE InputOf(c).losing) + SumOver(S \ {c}, field)

\* A plausible slip: the filter compares with the performer's parentId, not
\* with its id, and so finds the performer's siblings.
ChildrenByParentId(id) ==
    {u \in DOMAIN allUsers :
        u # id /\ allUsers[u].parentId = allUsers[id].parentId}

Children(id) == {u \in DOMAIN allUsers : allUsers[u].parentId = id}

\* A plausible slip: the inputs of the children are not taken off.
NetAmountsOwnOnly(input) == input.amounts

NetAmounts(input) ==
    LET ch == Children(input.performerId)
    IN  [casino |-> input.amounts.casino - SumOver(ch, "casino"),
         slot   |-> input.amounts.slot - SumOver(ch, "slot"),
         losing |-> input.amounts.losing - SumOver(ch, "losing")]

\* A plausible slip: break where the code says continue; an input without
\* a member ends step 2 for the inputs after it.
RECURSIVE NetInputsUntilUnknown(_)
NetInputsUntilUnknown(k) ==
    IF k > Len(inputs) THEN <<>>
    ELSE IF ~IsMember(inputs[k].performerId) THEN <<>>
    ELSE IF NetAmounts(inputs[k]) # ZeroAmounts
         THEN <<[performerId |-> inputs[k].performerId,
                 amounts |-> NetAmounts(inputs[k])]>>
              \o NetInputsUntilUnknown(k + 1)
         ELSE NetInputsUntilUnknown(k + 1)

\* Steps 1 and 2: the NET inputs, in the order of inputs.
RECURSIVE NetInputsFrom(_)
NetInputsFrom(k) ==
    IF k > Len(inputs) THEN <<>>
    ELSE LET input == inputs[k]
             net == NetAmounts(input)
         IN  IF ~IsMember(input.performerId) THEN NetInputsFrom(k + 1)
             ELSE IF net.casino # 0 \/ net.slot # 0 \/ net.losing # 0
                  THEN <<[performerId |-> input.performerId, amounts |-> net]>>
                       \o NetInputsFrom(k + 1)
                  ELSE NetInputsFrom(k + 1)

\* A plausible slip: step 2 takes the children's sums off the caller's
\* amounts objects in place.
InputsNetInPlace(ins) ==
    [k \in 1 .. Len(ins) |->
        IF IsMember(ins[k].performerId)
        THEN [performerId |-> ins[k].performerId,
              amounts |-> NetAmounts(ins[k])]
        ELSE ins[k]]

\* The inputs argument after steps 1 and 2: the code reads input.amounts
\* and builds childrenSum and netAmounts as new objects (lines 129-143).
InputsAfterNet(ins) == ins

\* A plausible slip: the slot commission is left out of the deduction.
ExpensesCasinoOnly(amounts, performer) ==
    amounts.casino * performer.casinoRate

\* casinoExpense + slotExpense, numerator over RateDen.
Expenses(amounts, performer) ==
    amounts.casino * performer.casinoRate + amounts.slot * performer.slotRate

\* A plausible policy slip: a losing base below zero is taken as zero.
AdjustedLosingNonNegative(amounts, performer) ==
    IF amounts.losing * RateDen
         < amounts.casino * performer.casinoRate
             + amounts.slot * performer.slotRate
    THEN 0
    ELSE amounts.losing * RateDen
           - (amounts.casino * performer.casinoRate
                + amounts.slot * performer.slotRate)

AdjustedLosingAmount(amounts, performer) ==
    amounts.losing * RateDen - Expenses(amounts, performer)

\* A plausible slip: a performer without a rate is taken to have no
\* volume on that channel.
TypeAmountZeroRateSkipped(type, amounts, performer) ==
    IF (IF type = "casino" THEN performer.casinoRate
        ELSE IF type = "slot" THEN performer.slotRate
        ELSE performer.losingRate) = 0
    THEN 0
    ELSE IF type = "casino" THEN amounts.casino * RateDen
    ELSE IF type = "slot" THEN amounts.slot * RateDen
    ELSE amounts.losing * RateDen
           - (amounts.casino * performer.casinoRate
                + amounts.slot * performer.slotRate)

\* A plausible slip: losing is computed on the losing input as entered.
TypeAmountRawLosing(type, amounts, performer) ==
    IF type = "casino" THEN amounts.casino * RateDen
    ELSE IF type = "slot" THEN amounts.slot * RateDen
    ELSE amounts.losing * RateDen

\* The amount a type is computed on, numerator over RateDen.
TypeAmount(type, amounts, performer) ==
    IF type = "casino" THEN amounts.casino * RateDen
    ELSE IF type = "slot" THEN amounts.slot * RateDen
    ELSE AdjustedLosingAmount(amounts, performer)

\* A plausible slip: a commission is cut to whole currency units.
CommissionWholeUnits(amt, rate) == ((amt * rate) \div MoneyDen) * MoneyDen

\* A plausible policy slip: a negative commission is floored at zero.
CommissionFloored(amt, rate) == IF amt * rate < 0 THEN 0 ELSE amt * rate

\* amount * (rate / 100), numerator over MoneyDen.
Commission(amt, rate) == amt * rate

KeyIndex(map, userId, source) ==
    {k \in 1 .. Len(map) : map[k].userId = userId /\ map[k].source = source}

\* A plausible slip (and an earlier design): every contribution is appended
\* as an entry of its own.
AddToResultNoMerge(map, userId, amt, role, source, line) ==
    Append(map, [userId |-> userId, amount |-> amt, role |-> role,
                 source |-> source, breakdown |-> <<line>>])

\* A plausible slip (and an earlier design): the performer's own commission
\* is reported only when it is 0, as a notice that the performer has no rate.
AddToResultSelfOnlyZero(map, userId, amt, role, source, line) ==
    IF role = "self" /\ amt # 0 THEN map
    ELSE LET hit == {k \in 1 .. Len(map) :
                        map[k].userId = userId /\ map[k].source = source}
         IN  IF hit # {}
             THEN LET k == CHOOSE x \in hit : TRUE
                  IN  [map EXCEPT ![k].amount = @ + amt,
                                  ![k].breakdown = Append(@, line)]
             ELSE Append(map, [userId |-> userId, amount |-> amt, role |-> role,
                               source |-> source, breakdown |-> <<line>>])

\* A plausible slip: a later contribution replaces the amount of the entry.
AddToResultOverwrite(map, userId, amt, role, source, line) ==
    LET hit == {k \in 1 .. Len(map) :
                   map[k].userId = userId /\ map[k].source = source}
    IN  IF hit # {}
        THEN LET k == CHOOSE x \in hit : TRUE
             IN  [map EXCEPT ![k].amount = amt,
                             ![k].breakdown = Append(@, line)]
        ELSE Append(map, [userId |-> userId, amount |-> amt, role |-> role,
                          source |-> source, breakdown |-> <<line>>])

\* A plausible slip: the entry takes the role of its latest contribution.
AddToResultLatestRole(map, userId, amt, role, source, line) ==
    LET hit == {k \in 1 .. Len(map) :
                   map[k].userId = userId /\ map[k].source = source}
    IN  IF hit # {}
        THEN LET k == CHOOSE x \in hit : TRUE
             IN  [map EXCEPT ![k].amount = @ + amt,
                             ![k].role = role,
                             ![k].breakdown = Append(@, line)]
        ELSE Append(map, [userId |-> userId, amount |-> amt, role |-> role,
                          source |-> source, breakdown |-> <<line>>])

\* addToResult: accumulate into the entry of "userId-source", or append one.
AddToResult(map, userId, amt, role, source, line) ==
    LET hit == KeyIndex(map, userId, source)
    IN  IF hit # {}
        THEN LET k == CHOOSE x \in hit : TRUE
             IN  [map EXCEPT ![k].amount = @ + amt,
                             ![k].breakdown = Append(@, line)]
        ELSE Append(map, [userId |-> userId, amount |-> amt, role |-> role,
                          source |-> source, breakdown |-> <<line>>])

\* One line of breakdown text: the numbers the template strings print.
BreakdownLine(role, who, performerId, type, amt, rate, childRate, diffRate, comm) ==
    [role |-> role, who |-> who, performer |-> performerId, type |-> type,
     amount |-> amt, rate |-> rate, childRate |-> childRate,
     diffRate |-> diffRate, comm |-> comm]

\* Array.prototype.sort((a, b) => b.amount - a.amount): stable, descending.
RECURSIVE InsertSorted(_, _)
InsertSorted(sorted, e) ==
    IF sorted = <<>> THEN <<e>>
    ELSE IF Head(sorted).amount >= e.amount
         THEN <<Head(sorted)>> \o InsertSorted(Tail(sorted), e)
         ELSE <<e>> \o sorted

\* A plausible slip: the map's values are returned as they were inserted.
SortByAmountOmitted(seq) == seq

RECURSIVE SortByAmount(_)
SortByAmount(seq) ==
    IF seq = <<>> THEN <<>>
    ELSE InsertSorted(SortByAmount(SubSeq(seq, 1, Len(seq) - 1)), seq[Len(seq)])

\* ---------------------------------------------------------------- Init
UserRecords ==
    {[parentId |-> p, casinoRate |-> r.casinoRate, slotRate |-> r.slotRate,
      losingRate |-> r.losingRate] :
        p \in UserIds \cup {NoParent, UnknownId}, r \in RateProfiles}

\* A member list as the member form builds it: a parent is created before
\* its children; a parentId may also name a member that no longer exists.
ForestUsers ==
    {f \in [UserIds -> UserRecords] :
        \A u \in UserIds :
            f[u].parentId \in {NoParent, UnknownId} \/ f[u].parentId < u}

BatchInputs ==
    [performerId : UserIds \cup {UnknownId}, amounts : AmountProfiles]

\* The caller builds inputs from a record keyed by member id
\* (useCalculator.handleCalculate), so no performer occurs twice.
InputLists ==
    {s \in UNION {[1 .. n -> BatchInputs] : n \in InputLengths} :
        \A a, b \in 1 .. Len(s) : a # b => s[a].performerId # s[b].performerId}

\* The members page is not in use while the engine is looked at alone.
EmptyDb == [u \in {} |-> u]

ClosedForm ==
    [mode |-> "closed", editUser |-> NoParent, preselectedParentId |-> NoParent,
     loaded |-> FALSE, deleteResult |-> "none"]

\* useCalculator before anything is loaded or entered.
ClosedPage ==
    [users |-> EmptyDb, inputs |-> <<>>, selectedMasterId |-> NoParent,
     results |-> <<>>, hasResults |-> FALSE, isCalculating |-> FALSE,
     at |-> "idle", seenUsers |-> EmptyDb, freshUsers |-> EmptyDb,
     alerted |-> FALSE, seenInputs |-> <<>>, seenMasterId |-> NoParent,
     calcResults |-> <<>>, reading |-> <<>>]

Locals0 ==
    /\ db = EmptyDb
    /\ form = ClosedForm
    /\ page = ClosedPage
    /\ logs = {}
    /\ netInputs = <<>>
    /\ resultsMap = <<>>
    /\ pc = "net"
    /\ i = 1
    /\ t = 1
    /\ amount = 0
    /\ currentChildRate = 0
    /\ currentParentId = NoParent
    /\ hops = 0
    /\ result = <<>>
    /\ calls = <<>>

Init ==
    /\ allUsers \in ForestUsers
    /\ inputs \in InputLists
    /\ Locals0

\* -------------------------------------------------------------- actions
\* Steps 1-2 (lines 98-153).
ComputeNet ==
    /\ pc = "net"
    /\ netInputs' = NetInputsFrom(1)
    /\ inputs' = InputsAfterNet(inputs)
    /\ pc' = "types"
    /\ UNCHANGED <<allUsers, resultsMap, i, t, amount,
                   currentChildRate, currentParentId, hops, result, calls,
                   memberVars, pageVars>>

\* The forEach/for positions after the current type is finished.
NextI == IF t = Len(Types) THEN i + 1 ELSE i
NextT == IF t = Len(Types) THEN 1 ELSE t + 1

\* One iteration of the forEach over types up to the start of the walk
\* (lines 196-264): the skips, the performer's own commission.
BeginType ==
    /\ pc = "types"
    /\ i <= Len(netInputs)
    /\ LET input == netInputs[i]
           a == input.amounts
       IN  IF (a.casino = 0 /\ a.slot = 0 /\ a.losing = 0)
              \/ ~IsMember(input.performerId)
           THEN /\ i' = i + 1
                /\ t' = 1
                /\ UNCHANGED <<resultsMap, pc, amount, currentChildRate,
                               currentParentId>>
           ELSE LET performer == allUsers[input.performerId]
                    type == Types[t]
                    amt == TypeAmount(type, a, performer)
                    performerRate == RateOf(performer, type)
                    performerComm == Commission(amt, performerRate)
                IN  IF amt = 0
                    THEN /\ i' = NextI
                         /\ t' = NextT
                         /\ UNCHANGED <<resultsMap, pc, amount,
                                        currentChildRate, currentParentId>>
                    ELSE /\ resultsMap' =
                              AddToResult(resultsMap, input.performerId,
                                  performerComm, "self", type,
                                  BreakdownLine("self", input.performerId,
                                      input.performerId, type, amt,
                                      performerRate, 0, 0, performerComm))
                         /\ amount' = amt
                         /\ currentChildRate' = performerRate
                         /\ currentParentId' = performer.parentId
                         /\ pc' = "walk"
                         /\ UNCHANGED <<i, t>>
    /\ UNCHANGED <<allUsers, inputs, netInputs, hops, result, calls,
                   memberVars, pageVars>>

\* One iteration of while (currentParentId) with the parent found
\* (lines 266-295).
WalkStep ==
    /\ pc = "walk"
    /\ currentParentId # NoParent
    /\ FindUser(currentParentId) # NoParent
    /\ LET parentId == FindUser(currentParentId)
           parent == allUsers[parentId]
           type == Types[t]
           parentRate == RateOf(parent, type)
           diffRate == DiffRate(parentRate, currentChildRate)
           parentComm == Commission(amount, diffRate)
       IN  /\ IF diffRate > 0
              THEN resultsMap' =
                        AddToResult(resultsMap, parentId, parentComm,
                            "upper", type,
                            BreakdownLine("upper", parentId,
                                netInputs[i].performerId, type, amount,
                                parentRate, currentChildRate, diffRate,
                                parentComm))
              ELSE resultsMap' = resultsMap
           /\ currentChildRate' =
                NextChildRate(parentRate, currentChildRate, diffRate)
           /\ currentParentId' = parent.parentId
    /\ hops' = (hops + 1) % HopWrap
    /\ UNCHANGED <<allUsers, inputs, netInputs, pc, i, t, amount, result,
                   calls,
                   memberVars, pageVars>>

\* The while loop ends: no parent id, or no member with that id.
WalkExit ==
    /\ pc = "walk"
    /\ currentParentId = NoParent \/ FindUser(currentParentId) = NoParent
    /\ pc' = "types"
    /\ i' = NextI
    /\ t' = NextT
    /\ amount' = 0
    /\ currentChildRate' = 0
    /\ currentParentId' = NoParent
    /\ hops' = 0
    /\ UNCHANGED <<allUsers, inputs, netInputs, resultsMap, result, calls,
                   memberVars, pageVars>>

\* Step 4 (line 303).
Return ==
    /\ pc = "types"
    /\ i > Len(netInputs)
    /\ result' = SortByAmount(resultsMap)
    /\ pc' = "done"
    /\ UNCHANGED <<allUsers, inputs, netInputs, resultsMap, i, t, amount,
                   currentChildRate, currentParentId, hops, calls,
                   memberVars, pageVars>>

Next == ComputeNet \/ BeginType \/ WalkStep \/ WalkExit \/ Return

Spec == Init /\ [][Next]_vars

\* Member lists with arbitrary parent links, cycles included: the parent
\* select of UserForm offers every member but the edited one, so a member
\* can be put under one of its own descendants.  At most one input, with an
\* amount on every channel.
AnyUsers == [UserIds -> UserRecords]

InitAnyLinks ==
    /\ allUsers \in AnyUsers
    /\ inputs \in {s \in InputLists :
                    /\ Len(s) <= 1
                    /\ \A k \in 1 .. Len(s) : s[k].amounts.slot > 0}
    /\ Locals0

\* The call runs to completion unless a loop of its own keeps it busy:
\* every step that can be taken is taken.
AnyLinksSpec == InitAnyLinks /\ [][Next]_vars /\ WF_vars(Next)

\* The caller calls the engine once more on the same member list, with the
\* same inputs (k = 0) or with input k taken out; every call starts with
\* its own empty results map and net list.
WithoutInput(ins, k) ==
    IF k = 0 THEN ins
    ELSE SubSeq(ins, 1, k - 1) \o SubSeq(ins, k + 1, Len(ins))

CallAgain ==
    /\ pc = "done"
    /\ calls = <<>>
    /\ calls' = Append(calls, [inputs |-> inputs, result |-> result])
    /\ \E k \in 0 .. Len(inputs) : inputs' = WithoutInput(inputs, k)
    /\ resultsMap' = NewResultsMap(resultsMap)
    /\ netInputs' = <<>>
    /\ pc' = "net"
    /\ i' = 1
    /\ t' = 1
    /\ amount' = 0
    /\ currentChildRate' = 0
    /\ currentParentId' = NoParent
    /\ hops' = 0
    /\ result' = <<>>
    /\ UNCHANGED <<allUsers, memberVars, pageVars>>

NextTwoCalls == Next \/ CallAgain

\* Two calls in a row on member lists whose parent links all lead to
\* members.
InitTwoCalls ==
    /\ allUsers \in {f \in ForestUsers :
                        \A u \in UserIds : f[u].parentId # UnknownId}
    /\ inputs \in InputLists
    /\ Locals0

TwoCallsSpec == InitTwoCalls /\ [][NextTwoCalls]_vars

\* ------------------------------------------- the members page, UserForm
\* LEVELS of constants/levels.ts, top level first.
LEVELS == <<"GrandMaster", "Master", "Branch", "SubBranch">>

\* null and undefined where a level is expected.
NoLevel == "none"

\* LEVELS.indexOf(level), counted from 1; 0 when it is not found.
LevelIndex(level) ==
    IF \E k \in 1 .. Len(LEVELS) : LEVELS[k] = level
    THEN CHOOSE k \in 1 .. Len(LEVELS) : LEVELS[k] = level
    ELSE 0

getNextLevel(currentLevel) ==
    IF currentLevel = NoLevel THEN LEVELS[1]
    ELSE IF LevelIndex(currentLevel) = 0
            \/ LevelIndex(currentLevel) >= Len(LEVELS)
         THEN NoLevel
         ELSE LEVELS[LevelIndex(currentLevel) + 1]

\* The users state of the form: filled by fetchUsers after the form is
\* mounted, empty before; the collection does not change while the form of
\* this client is open.
FormUsers == IF form.loaded THEN db ELSE EmptyDb

\* users.find(u => u.id === parentId): the id found, NoParent for undefined.
ParentUser(parentId) ==
    IF parentId \in DOMAIN FormUsers THEN parentId ELSE NoParent

calculatedLevel(parentId) ==
    IF parentId = NoParent THEN LEVELS[1]
    ELSE getNextLevel(IF ParentUser(parentId) = NoParent THEN NoLevel
                      ELSE FormUsers[ParentUser(parentId)].level)

isRateInvalid(parentId, rates) ==
    /\ ParentUser(parentId) # NoParent
    /\ \/ rates.casinoRate > FormUsers[ParentUser(parentId)].casinoRate
       \/ rates.slotRate > FormUsers[ParentUser(parentId)].slotRate
       \/ rates.losingRate > FormUsers[ParentUser(parentId)].losingRate

\* What the parent select can hold: it is disabled for a new top-level
\* member and for a child added under a chosen member; in an edit it starts
\* at the member's parent and offers every listed member but the edited one.
ParentChoices ==
    IF form.mode = "new" THEN {NoParent}
    ELSE IF form.mode = "child" THEN {form.preselectedParentId}
    ELSE {NoParent, db[form.editUser].parentId}
           \cup (DOMAIN FormUsers \ {form.editUser})

userData(parentId, rates) ==
    [parentId |-> parentId, casinoRate |-> rates.casinoRate,
     slotRate |-> rates.slotRate, losingRate |-> rates.losingRate,
     level |-> calculatedLevel(parentId)]

\* UsersPage: handleAddNew, handleAddChild, handleEdit open the form.
handleAddNew ==
    /\ form.mode = "closed"
    /\ form' = [ClosedForm EXCEPT !.mode = "new"]
    /\ UNCHANGED <<db, engineVars, pageVars>>

handleAddChild ==
    /\ form.mode = "closed"
    /\ \E parentId \in DOMAIN db :
         form' = [ClosedForm EXCEPT !.mode = "child",
                                    !.preselectedParentId = parentId]
    /\ UNCHANGED <<db, engineVars, pageVars>>

handleEdit ==
    /\ form.mode = "closed"
    /\ \E user \in DOMAIN db :
         form' = [ClosedForm EXCEPT !.mode = "edit", !.editUser = user]
    /\ UNCHANGED <<db, engineVars, pageVars>>

\* The effect of the form: getAllUsers resolves and fills users.
fetchUsers ==
    /\ form.mode # "closed"
    /\ ~form.loaded
    /\ form' = [form EXCEPT !.loaded = TRUE]
    /\ UNCHANGED <<db, engineVars, pageVars>>

\* handleSubmit with a name entered: return when the level limit is reached
\* or a rate exceeds the parent's; otherwise updateUser or addUser, and the
\* form closes.
handleSubmit ==
    /\ form.mode # "closed"
    /\ \E parentId \in ParentChoices, rates \in RateProfiles :
         /\ calculatedLevel(parentId) # NoLevel
         /\ ~isRateInvalid(parentId, rates)
         /\ IF form.mode = "edit"
            THEN db' = [db EXCEPT ![form.editUser] = userData(parentId, rates)]
            ELSE \E id \in UserIds \ DOMAIN db :
                    db' = [u \in DOMAIN db \cup {id} |->
                              IF u = id THEN userData(parentId, rates)
                              ELSE db[u]]
    /\ form' = ClosedForm
    /\ UNCHANGED <<engineVars, pageVars>>

handleClose ==
    /\ form.mode # "closed"
    /\ form' = ClosedForm
    /\ UNCHANGED <<db, engineVars, pageVars>>

\* A plausible slip: ids of two types are compared and never match.
HasChildrenNever(users, id) == FALSE

\* users?.some(u => u.parentId === id) over the live list of the page.
HasChildren(users, id) == \E u \in DOMAIN users : users[u].parentId = id

\* UsersPage.handleDelete behind the list (the form is a modal sheet): the
\* alert when the member has children, otherwise the delete once the user
\* has confirmed; a cancelled confirm changes nothing.  deleteResult keeps
\* what the last call did until a form is opened.
handleDelete ==
    /\ form.mode = "closed"
    /\ \E id \in DOMAIN db :
         IF HasChildren(db, id)
         THEN /\ form' = [ClosedForm EXCEPT !.deleteResult = "alerted"]
              /\ db' = db
         ELSE /\ form' = [ClosedForm EXCEPT !.deleteResult = "deleted"]
              /\ db' = [u \in DOMAIN db \ {id} |-> db[u]]
    /\ UNCHANGED <<engineVars, pageVars>>

MembersNext ==
    \/ handleAddNew
    \/ handleDelete
    \/ handleAddChild
    \/ handleEdit
    \/ fetchUsers
    \/ handleSubmit
    \/ handleClose

\* No call of the engine is under way.
NoCall ==
    /\ allUsers = EmptyDb
    /\ inputs = <<>>
    /\ netInputs = <<>>
    /\ resultsMap = <<>>
    /\ pc = "idle"
    /\ i = 1
    /\ t = 1
    /\ amount = 0
    /\ currentChildRate = 0
    /\ currentParentId = NoParent
    /\ hops = 0
    /\ result = <<>>
    /\ calls = <<>>

\* The members page from an empty collection; no calculation is running.
MembersInit ==
    /\ NoCall
    /\ db = EmptyDb
    /\ form = ClosedForm
    /\ page = ClosedPage
    /\ logs = {}

MembersSpec == MembersInit /\ [][MembersNext]_vars

\* ------------------------------------------ the calculator, useCalculator
Member(parentId, rates, level) ==
    [parentId |-> parentId, casinoRate |-> rates.casinoRate,
     slotRate |-> rates.slotRate, losingRate |-> rates.losingRate,
     level |-> level]

\* The logs one run of the page writes.
MaxLogs == 1

LowRates == [casinoRate |-> 5, slotRate |-> 10, losingRate |-> 100]
HighRates == [casinoRate |-> 10, slotRate |-> 10, losingRate |-> 200]

\* The member lists the collection holds while the calculator is open: two
\* members; the same two with other rates; three members.
PageDbs ==
    { [u \in {1, 2} |->
          IF u = 1 THEN Member(NoParent, HighRates, LEVELS[1])
          ELSE Member(1, LowRates, LEVELS[2])],
      [u \in {1, 2} |->
          IF u = 1 THEN Member(NoParent, HighRates, LEVELS[1])
          ELSE Member(1, HighRates, LEVELS[2])],
      [u \in {1, 2, 3} |->
          IF u = 1 THEN Member(NoParent, HighRates, LEVELS[1])
          ELSE IF u = 2 THEN Member(1, LowRates, LEVELS[2])
          ELSE Member(2, LowRates, LEVELS[3])] }

\* The amounts entered on the page, in the order of Object.entries(inputs),
\* as the numbers the strings parse to.
PageInputs ==
    { <<>>,
      <<[userId |-> 2,
         amounts |-> [casino |-> CasinoIn, slot |-> SlotIn, losing |-> LosingIn]]>>,
      <<[userId |-> 3, amounts |-> [casino |-> CasinoIn, slot |-> 0, losing |-> 0]],
        [userId |-> 1, amounts |-> ZeroAmounts],
        [userId |-> 2,
         amounts |-> [casino |-> CasinoIn, slot |-> SlotIn, losing |-> LosingIn]]>> }

\* batchInputs: the entries with an amount above 0, in their order.
RECURSIVE batchInputs(_)
batchInputs(entries) ==
    IF entries = <<>> THEN <<>>
    ELSE LET a == Head(entries).amounts
         IN  (IF a.casino > 0 \/ a.slot > 0 \/ a.losing > 0
              THEN <<[performerId |-> Head(entries).userId, amounts |-> a]>>
              ELSE <<>>) \o batchInputs(Tail(entries))

\* A plausible slip: the engine is given the users state the handler was
\* rendered with, not the list it has just loaded.
EngineUsersFromState(freshUsers, users) == users

\* The second argument of calculateBatchCommission (line 218).
EngineUsers(freshUsers, users) == freshUsers

\* The effect that loads the users state when the page is opened.
loadUsers ==
    /\ page.users = EmptyDb
    /\ page' = [page EXCEPT !.users = db]
    /\ UNCHANGED <<engineVars, memberVars, logs>>

\* A handler of the page, and the arrival of another client's write, come
\* between the steps of handleCalculate, never inside the engine's run: the
\* engine has no await.
BetweenSteps == page.at # "engine"

\* Another client adds, edits or deletes members.
RemoteChange ==
    /\ BetweenSteps
    /\ db' \in PageDbs \ {db}
    /\ UNCHANGED <<engineVars, form, pageVars>>

\* handleCalculate up to its first await (lines 198-201).  The handler and
\* the handleSave it calls read users, inputs and selectedMasterId of the
\* render they were created in: seenUsers, seenInputs, seenMasterId.
handleCalculate ==
    /\ page.at = "idle"
    /\ Cardinality(logs) < MaxLogs
    /\ page' = [page EXCEPT !.at = "loading", !.isCalculating = TRUE,
                            !.seenUsers = page.users, !.alerted = FALSE,
                            !.seenInputs = page.inputs,
                            !.seenMasterId = page.selectedMasterId]
    /\ UNCHANGED <<engineVars, memberVars, logs>>

\* getAllUsers resolves; setUsers, batchInputs, and the engine is called
\* (lines 201-218).
getAllUsersResolved ==
    /\ page.at = "loading"
    /\ page' = [page EXCEPT !.at = "engine", !.freshUsers = db, !.users = db]
    /\ allUsers' = EngineUsers(db, page.seenUsers)
    /\ inputs' = batchInputs(page.seenInputs)
    /\ netInputs' = <<>>
    /\ resultsMap' = NewResultsMap(resultsMap)
    /\ pc' = "net"
    /\ i' = 1
    /\ t' = 1
    /\ amount' = 0
    /\ currentChildRate' = 0
    /\ currentParentId' = NoParent
    /\ hops' = 0
    /\ result' = <<>>
    /\ UNCHANGED <<calls, memberVars, logs>>

\* getAllUsers rejects: catch, alert, finally (lines 222-227).
getAllUsersRejected ==
    /\ page.at = "loading"
    /\ page' = [page EXCEPT !.at = "idle", !.isCalculating = FALSE,
                            !.alerted = TRUE]
    /\ UNCHANGED <<engineVars, memberVars, logs>>

\* The engine returns and its locals are gone: setResults, and
\* handleSave(calcResults) up to its await (lines 219-220, 168-192).
engineResolved ==
    /\ page.at = "engine"
    /\ pc = "done"
    /\ page' = [page EXCEPT !.at = "saving", !.results = result,
                            !.hasResults = TRUE, !.calcResults = result]
    /\ allUsers' = EmptyDb
    /\ inputs' = <<>>
    /\ netInputs' = <<>>
    /\ resultsMap' = <<>>
    /\ pc' = "idle"
    /\ i' = 1
    /\ t' = 1
    /\ amount' = 0
    /\ currentChildRate' = 0
    /\ currentParentId' = NoParent
    /\ hops' = 0
    /\ result' = <<>>
    /\ UNCHANGED <<calls, memberVars, logs>>

\* logData of handleSave(calcResults) (lines 181-189), without the date and
\* the totals.
LogData(calcResults, masterId, entries) ==
    [results |-> calcResults, selectedMasterId |-> masterId,
     inputs |-> entries]

logData == LogData(page.calcResults, page.seenMasterId, page.seenInputs)

\* setDoc resolves: the log is stored; finally.
setDocResolved ==
    /\ page.at = "saving"
    /\ logs' = logs \cup {logData}
    /\ page' = [page EXCEPT !.at = "idle", !.isCalculating = FALSE]
    /\ UNCHANGED <<engineVars, memberVars>>

\* setDoc rejects: handleSave logs the error to the console; finally.
setDocRejected ==
    /\ page.at = "saving"
    /\ page' = [page EXCEPT !.at = "idle", !.isCalculating = FALSE]
    /\ UNCHANGED <<engineVars, memberVars, logs>>

\* inputs after setInputs(prev => ({...prev, [userId]: {...prev[userId],
\* [field]: value}})): the entry is changed in place, or added at the end.
InputsWith(entries, userId, field, value) ==
    LET hit == {k \in 1 .. Len(entries) : entries[k].userId = userId}
    IN  IF hit # {}
        THEN LET k == CHOOSE x \in hit : TRUE
             IN  [entries EXCEPT ![k].amounts[field] = value]
        ELSE Append(entries,
                    [userId |-> userId,
                     amounts |-> [ZeroAmounts EXCEPT ![field] = value]])

\* The amounts typed on the page.
TypedUsers == {3}
TypedValues == {0, CasinoIn}

handleInputChange ==
    /\ BetweenSteps
    /\ \E userId \in TypedUsers : \E value \in TypedValues :
         page' = [page EXCEPT
                    !.inputs = InputsWith(@, userId, "casino", value)]
    /\ UNCHANGED <<engineVars, memberVars, logs>>

\* grandMasters: the members of the top level in the users state.
grandMasters ==
    {u \in DOMAIN page.users : page.users[u].level = LEVELS[1]}

handleMasterSelect ==
    /\ BetweenSteps
    /\ \E id \in grandMasters :
         page' = [page EXCEPT !.selectedMasterId = id]
    /\ UNCHANGED <<engineVars, memberVars, logs>>

\* handleReset, confirmed by the user.
handleReset ==
    /\ BetweenSteps
    /\ page' = [page EXCEPT !.inputs = <<>>, !.results = <<>>,
                            !.hasResults = FALSE]
    /\ UNCHANGED <<engineVars, memberVars, logs>>

\* The calculator is opened with ?logId= of a stored log: the hook starts
\* from its initial state, nothing is read from localStorage, and
\* loadLogData awaits getDoc (lines 40-54, 73-79).
openLog ==
    /\ page.at = "idle"
    /\ \E data \in logs : page' = [ClosedPage EXCEPT !.reading = <<data>>]
    /\ UNCHANGED <<engineVars, memberVars, logs>>

\* if (data.selectedMasterId) setSelectedMasterId(...) (line 84).
LoadedMasterId(data, current) ==
    IF data.selectedMasterId # NoParent THEN data.selectedMasterId
    ELSE current

\* if (data.inputs) setInputs(data.inputs) (line 85): an object, also an
\* empty one, is truthy.
LoadedInputs(data, current) == data.inputs

\* getDoc resolves with the document (lines 80-86).
getDocResolved ==
    /\ BetweenSteps
    /\ page.reading # <<>>
    /\ page' = [page EXCEPT
                  !.selectedMasterId = LoadedMasterId(page.reading[1], @),
                  !.inputs = LoadedInputs(page.reading[1], @),
                  !.reading = <<>>]
    /\ UNCHANGED <<engineVars, memberVars, logs>>

\* getDoc rejects: the error goes to the console (lines 87-89).
getDocRejected ==
    /\ BetweenSteps
    /\ page.reading # <<>>
    /\ page' = [page EXCEPT !.reading = <<>>]
    /\ UNCHANGED <<engineVars, memberVars, logs>>

PageNext ==
    \/ loadUsers
    \/ handleInputChange
    \/ handleMasterSelect
    \/ handleReset
    \/ openLog
    \/ getDocResolved
    \/ getDocRejected
    \/ RemoteChange
    \/ handleCalculate
    \/ getAllUsersResolved
    \/ getAllUsersRejected
    \/ engineResolved
    \/ setDocResolved
    \/ setDocRejected
    \/ Next

PageInit ==
    /\ NoCall
    /\ db \in PageDbs
    /\ form = ClosedForm
    /\ page \in {[ClosedPage EXCEPT !.inputs = ins, !.selectedMasterId = m] :
                    ins \in PageInputs, m \in {NoParent, 1}}
    /\ logs = {}

PageSpec == PageInit /\ [][PageNext]_vars

\* ------------------------------------------------- reading the outcome
Done == pc = "done"

\* Positions of the entries of one member and channel in the returned array.
Entries(userId, source) ==
    {k \in 1 .. Len(result) :
        result[k].userId = userId /\ result[k].source = source}

\* Every breakdown line of the returned array.
AllLines ==
    UNION {{result[k].breakdown[j] : j \in 1 .. Len(result[k].breakdown)} :
            k \in 1 .. Len(result)}

LinesOf(performerId, type) ==
    {l \in AllLines : l.performer = performerId /\ l.type = type}

\* The ancestors of a member, nearest first, as far as the parent links
\* lead to members; on a forest the fuel never runs out.
RECURSIVE LineageFrom(_, _)
LineageFrom(pid, fuel) ==
    IF fuel = 0 \/ pid = NoParent \/ pid \notin DOMAIN allUsers THEN <<>>
    ELSE <<pid>> \o LineageFrom(allUsers[pid].parentId, fuel - 1)

Lineage(performerId) ==
    LineageFrom(allUsers[performerId].parentId, Cardinality(UserIds))

MaxOf(S) == CHOOSE m \in S : \A x \in S : x <= m

\* The level directly below position k of a lineage.
PrevLevel(performerId, lineage, k) ==
    IF k = 1 THEN performerId ELSE lineage[k - 1]

\* The highest rate among the performer and the levels below position k.
MaxBelow(performerId, lineage, k, type) ==
    MaxOf({RateOf(allUsers[performerId], type)}
          \cup {RateOf(allUsers[lineage[j]], type) : j \in 1 .. k - 1})

\* C1: one input, a leaf directly under a root, 0 < r <= R, casino F > 0.
TwoLevelCase(leaf, root) ==
    /\ Len(inputs) = 1
    /\ inputs[1].performerId = leaf
    /\ leaf \in UserIds /\ root \in UserIds
    /\ allUsers[leaf].parentId = root
    /\ allUsers[root].parentId = NoParent
    /\ inputs[1].amounts.casino > 0
    /\ 0 < allUsers[leaf].casinoRate
    /\ allUsers[leaf].casinoRate <= allUsers[root].casinoRate

\* C1 as claimed: the root's casino entry is F/(r/100)*(R/100) - F, the
\* input being a fee already paid to the leaf and inverted into rolling.
\* (amount / MoneyDen = F*R/r - F, cross-multiplied; an amount of 0 may
\* also be reported by no entry.)
C1_FeeInverted ==
    Done =>
        \A leaf, root \in UserIds :
            TwoLevelCase(leaf, root) =>
                LET want == inputs[1].amounts.casino
                              * (allUsers[root].casinoRate
                                   - allUsers[leaf].casinoRate)
                              * MoneyDen
                IN  \/ \E k \in Entries(root, "casino") :
                          result[k].amount * allUsers[leaf].casinoRate = want
                    \/ want = 0 /\ Entries(root, "casino") = {}

\* C1 amended: the input is the rolling volume itself; for r < R the root
\* has exactly one casino entry, role upper, of F*(R - r)/100, and for
\* r = R the root has no casino entry.
C1_RootDifferential ==
    Done =>
        \A leaf, root \in UserIds :
            TwoLevelCase(leaf, root) =>
                LET F == inputs[1].amounts.casino
                    r == allUsers[leaf].casinoRate
                    R == allUsers[root].casinoRate
                    es == Entries(root, "casino")
                IN  IF r < R
                    THEN /\ Cardinality(es) = 1
                         /\ \A k \in es :
                              /\ result[k].role = "upper"
                              /\ result[k].amount = F * (R - r) * RateDen
                    ELSE es = {}

C1_Witness ==
    /\ Done
    /\ \E leaf, root \in UserIds :
         /\ TwoLevelCase(leaf, root)
         /\ allUsers[leaf].casinoRate < allUsers[root].casinoRate
         /\ Entries(root, "casino") # {}

\* One input of an existing performer; NET equals the input, since no child
\* of the performer has an input.
SingleInputOf(p) ==
    /\ Len(inputs) = 1
    /\ inputs[1].performerId = p
    /\ p \in UserIds

InputAmount(type) ==
    IF type = "casino" THEN inputs[1].amounts.casino
    ELSE IF type = "slot" THEN inputs[1].amounts.slot
    ELSE inputs[1].amounts.losing

\* C2 as claimed: every ancestor's casino and slot amount is the volume
\* times (its rate minus the rate of the level directly below it)/100,
\* negative when its rate is the lower one.  (A zero amount may also be
\* reported by no entry.)
C2_PrecedingLevelDiff ==
    Done =>
        \A p \in UserIds : \A type \in {"casino", "slot"} :
            (SingleInputOf(p) /\ InputAmount(type) > 0) =>
                LET lin == Lineage(p)
                IN  \A k \in 1 .. Len(lin) :
                        LET want == InputAmount(type) * RateDen
                                    * (RateOf(allUsers[lin[k]], type)
                                       - RateOf(allUsers[PrevLevel(p, lin, k)], type))
                        IN  \/ \E e \in Entries(lin[k], type) :
                                    result[e].amount = want
                            \/ want = 0 /\ Entries(lin[k], type) = {}

\* C2 amended: every ancestor is compared with the highest rate among the
\* performer and the levels below it; with a higher rate it has exactly one
\* upper entry of volume * difference/100, otherwise it has no entry at all
\* (it is skipped, never reported with a negative amount).
C2_HighestBelowDiff ==
    Done =>
        \A p \in UserIds : \A type \in {"casino", "slot"} :
            (SingleInputOf(p) /\ InputAmount(type) > 0) =>
                LET lin == Lineage(p)
                IN  \A k \in 1 .. Len(lin) :
                        LET d == RateOf(allUsers[lin[k]], type)
                                 - MaxBelow(p, lin, k, type)
                            es == Entries(lin[k], type)
                        IN  IF d > 0
                            THEN /\ Cardinality(es) = 1
                                 /\ \A e \in es :
                                      /\ result[e].role = "upper"
                                      /\ result[e].amount
                                           = InputAmount(type) * RateDen * d
                            ELSE es = {}

\* A lower-rated ancestor between the performer and a higher-rated one.
C2_Witness ==
    /\ Done
    /\ \E p \in UserIds :
         /\ SingleInputOf(p)
         /\ InputAmount("casino") > 0
         /\ Len(Lineage(p)) = 2
         /\ allUsers[Lineage(p)[1]].casinoRate < allUsers[p].casinoRate
         /\ allUsers[p].casinoRate < allUsers[Lineage(p)[2]].casinoRate
         /\ Entries(Lineage(p)[1], "casino") = {}
         /\ Entries(Lineage(p)[2], "casino") # {}

CasinoEntries == {k \in 1 .. Len(result) : result[k].source = "casino"}

\* C3: one input of a performer with casino rate 0 and casino input > 0.
ZeroRateCase(p) ==
    /\ SingleInputOf(p)
    /\ allUsers[p].casinoRate = 0
    /\ inputs[1].amounts.casino > 0

\* C3 as claimed: the only casino entry is the performer's self entry of
\* amount 0 with a breakdown; no ancestor has an upper casino entry.
C3_ZeroRateOnlySelf ==
    Done =>
        \A p \in UserIds :
            ZeroRateCase(p) =>
                /\ Cardinality(CasinoEntries) = 1
                /\ \A k \in CasinoEntries :
                     /\ result[k].userId = p
                     /\ result[k].role = "self"
                     /\ result[k].amount = 0
                     /\ result[k].breakdown # <<>>

\* C3 amended: the performer has exactly one casino entry, role self,
\* amount 0, with a breakdown; the ancestors are paid as for any volume:
\* the nearest ancestor with a positive casino rate a% has an upper entry
\* of F*a/100, and there is no upper casino entry only when every
\* ancestor's casino rate is 0.
C3_ZeroRateSelfThenUpper ==
    Done =>
        \A p \in UserIds :
            ZeroRateCase(p) =>
                LET lin == Lineage(p)
                    paid == {k \in 1 .. Len(lin) :
                                allUsers[lin[k]].casinoRate > 0}
                    uppers == {k \in CasinoEntries : result[k].role = "upper"}
                IN  /\ Cardinality(Entries(p, "casino")) = 1
                    /\ \A k \in Entries(p, "casino") :
                         /\ result[k].role = "self"
                         /\ result[k].amount = 0
                         /\ result[k].breakdown # <<>>
                    /\ IF paid = {} THEN uppers = {}
                       ELSE LET first == CHOOSE k \in paid :
                                            \A j \in paid : k <= j
                            IN  \E e \in uppers :
                                  /\ result[e].userId = lin[first]
                                  /\ result[e].amount
                                       = inputs[1].amounts.casino * RateDen
                                         * allUsers[lin[first]].casinoRate

C3_Witness ==
    /\ Done
    /\ \E p \in UserIds :
         /\ ZeroRateCase(p)
         /\ \E k \in Entries(p, "casino") : result[k].amount = 0
         /\ \E k \in CasinoEntries : result[k].role = "upper"

\* What one NET input contributes to a member on a channel: the performer's
\* own commission, and for an ancestor the volume times its rate's excess
\* over the highest rate below it.
RECURSIVE UpperShare(_, _, _, _, _)
UpperShare(p, lin, k, userId, type) ==
    IF k > Len(lin) THEN 0
    ELSE (IF lin[k] = userId
             /\ RateOf(allUsers[userId], type) > MaxBelow(p, lin, k, type)
          THEN RateOf(allUsers[userId], type) - MaxBelow(p, lin, k, type)
          ELSE 0) + UpperShare(p, lin, k + 1, userId, type)

Contribution(net, userId, type) ==
    LET p == net.performerId
        base == TypeAmount(type, net.amounts, allUsers[p])
    IN  base * ((IF userId = p THEN RateOf(allUsers[p], type) ELSE 0)
                + UpperShare(p, Lineage(p), 1, userId, type))

RECURSIVE TotalFrom(_, _, _)
TotalFrom(k, userId, type) ==
    IF k > Len(netInputs) THEN 0
    ELSE Contribution(netInputs[k], userId, type)
         + TotalFrom(k + 1, userId, type)

TypeSet == {Types[k] : k \in 1 .. Len(Types)}

LinePerformers(entry) ==
    {entry.breakdown[j].performer : j \in 1 .. Len(entry.breakdown)}

\* C4 as claimed: no merging across leaves; every returned entry stems from
\* the input of one leaf.
C4_OneLeafPerEntry ==
    Done =>
        \A k \in 1 .. Len(result) : Cardinality(LinePerformers(result[k])) <= 1

\* C4 amended: contributions are merged by (userId, source): the result
\* holds at most one entry per pair, and its amount is the sum of what every
\* input of the batch contributes to that member on that channel.
C4_MergedPerKey ==
    Done =>
        \A u \in UserIds : \A type \in TypeSet :
            /\ Cardinality(Entries(u, type)) <= 1
            /\ \A k \in Entries(u, type) :
                 result[k].amount = TotalFrom(1, u, type)

\* Two leaves of one batch meet in one entry of a shared ancestor.
C4_Witness ==
    /\ Done
    /\ \E k \in 1 .. Len(result) :
         /\ Cardinality(LinePerformers(result[k])) = 2
         /\ result[k].userId \notin LinePerformers(result[k])

\* C5 as claimed: the entries are returned in processing order (the order
\* in which their keys were first produced), whatever their amounts.
C5_ProcessingOrder ==
    Done => result = resultsMap

MapPosition(entry) == CHOOSE k \in 1 .. Len(resultsMap) : resultsMap[k] = entry

\* C5 amended: the entries are returned by amount, largest first; entries of
\* equal amount keep their processing order; nothing is added or dropped.
C5_SortedByAmount ==
    Done =>
        /\ Len(result) = Len(resultsMap)
        /\ {result[k] : k \in 1 .. Len(result)}
             = {resultsMap[k] : k \in 1 .. Len(resultsMap)}
        /\ \A a, b \in 1 .. Len(result) :
             a < b =>
                /\ result[a].amount >= result[b].amount
                /\ result[a].amount = result[b].amount
                     => MapPosition(result[a]) < MapPosition(result[b])

\* The sort moved an entry, and two entries tie.
C5_Witness ==
    /\ Done
    /\ result # resultsMap
    /\ \E a, b \in 1 .. Len(result) :
         a < b /\ result[a].amount = result[b].amount

\* C6: the call terminates for every member list and input list, also when
\* the parentId links form a cycle: the lineage walk is bounded and the call
\* reaches its return.
C6_Terminates == <>Done

\* The inputs of existing performers.
MemberInputs == {k \in 1 .. Len(inputs) : inputs[k].performerId \in UserIds}

\* NET of input k, read off the batch: the own amounts minus the amounts of
\* every input whose performer is a direct child of this performer.
RECURSIVE ChildInputSum(_, _, _)
ChildInputSum(parent, j, field) ==
    IF j > Len(inputs) THEN 0
    ELSE (IF inputs[j].performerId \in UserIds
             /\ allUsers[inputs[j].performerId].parentId = parent
          THEN (IF field = "casino" THEN inputs[j].amounts.casino
                ELSE IF field = "slot" THEN inputs[j].amounts.slot
                ELSE inputs[j].amounts.losing)
          ELSE 0) + ChildInputSum(parent, j + 1, field)

NetOfInput(k) ==
    LET p == inputs[k].performerId
    IN  [casino |-> inputs[k].amounts.casino - ChildInputSum(p, 1, "casino"),
         slot   |-> inputs[k].amounts.slot - ChildInputSum(p, 1, "slot"),
         losing |-> inputs[k].amounts.losing - ChildInputSum(p, 1, "losing")]

\* The losing base of input k from the performer's own rates, over RateDen.
OwnRateLosingBase(k) ==
    LET p == allUsers[inputs[k].performerId]
        net == NetOfInput(k)
    IN  net.losing * RateDen
          - (net.casino * p.casinoRate + net.slot * p.slotRate)

\* The amount of a channel that input k is processed with, over RateDen.
ProcessedAmount(k, type) ==
    IF type = "casino" THEN NetOfInput(k).casino * RateDen
    ELSE IF type = "slot" THEN NetOfInput(k).slot * RateDen
    ELSE OwnRateLosingBase(k)

InputIndexOf(performerId) ==
    CHOOSE k \in 1 .. Len(inputs) : inputs[k].performerId = performerId

\* The position of an ancestor in the lineage of a performer.
LineagePos(performerId, ancestor) ==
    CHOOSE k \in 1 .. Len(Lineage(performerId)) :
        Lineage(performerId)[k] = ancestor

UpperLosingLines == {l \in AllLines : l.type = "losing" /\ l.role = "upper"}

Pos(x) == IF x > 0 THEN x ELSE 0

\* C7 as claimed: an input amount of 0 on a channel leaves the result
\* without any entry of that channel from that input, for the performer and
\* for its lineage.
C7_ZeroInputNoEntry ==
    Done =>
        \A k \in MemberInputs : \A type \in TypeSet :
            (IF type = "casino" THEN inputs[k].amounts.casino
             ELSE IF type = "slot" THEN inputs[k].amounts.slot
             ELSE inputs[k].amounts.losing) = 0
                => LinesOf(inputs[k].performerId, type) = {}

\* C7 amended: what decides is the amount the input is processed with: the
\* NET amount for casino and slot, and for losing the NET losing amount
\* minus the performer's casino and slot commission on the NET amounts.
\* When it is 0 nothing of that channel stems from the input; otherwise the
\* performer's own line of that channel does.
C7_ZeroProcessedNoEntry ==
    Done =>
        \A k \in MemberInputs : \A type \in TypeSet :
            LET p == inputs[k].performerId
            IN  IF ProcessedAmount(k, type) = 0
                THEN LinesOf(p, type) = {}
                ELSE \E l \in LinesOf(p, type) : l.role = "self" /\ l.who = p

\* An input without slot amount: casino lines, no slot line.
C7_Witness ==
    /\ Done
    /\ \E k \in MemberInputs :
         /\ inputs[k].amounts.slot = 0
         /\ ProcessedAmount(k, "slot") = 0
         /\ LinesOf(inputs[k].performerId, "slot") = {}
         /\ LinesOf(inputs[k].performerId, "casino") # {}

\* C8 as claimed: at every ancestor the losing base is recomputed from the
\* ancestor's margin over the leaf:
\*   losing - (casino * max(0, a.casinoRate - leaf.casinoRate)/100
\*             + slot * max(0, a.slotRate - leaf.slotRate)/100).
C8_PerAncestorMarginBase ==
    Done =>
        \A l \in UpperLosingLines :
            LET k == InputIndexOf(l.performer)
                net == NetOfInput(k)
                leaf == allUsers[l.performer]
                a == allUsers[l.who]
            IN  l.amount
                  = net.losing * RateDen
                    - (net.casino * Pos(a.casinoRate - leaf.casinoRate)
                       + net.slot * Pos(a.slotRate - leaf.slotRate))

\* C8 amended: the losing base is computed once per input from the
\* performer's own rates,
\*   losing - (casino * performer.casinoRate/100
\*             + slot * performer.slotRate/100)   on the NET amounts,
\* and every ancestor's losing amount is computed on that same base.
C8_OwnRateBaseForAll ==
    Done =>
        \A l \in UpperLosingLines :
            l.amount = OwnRateLosingBase(InputIndexOf(l.performer))

\* Two ancestors with different casino rates paid losing from one input
\* that has casino volume.
C8_Witness ==
    /\ Done
    /\ \E l1, l2 \in UpperLosingLines :
         /\ l1.performer = l2.performer
         /\ allUsers[l1.who].casinoRate # allUsers[l2.who].casinoRate
         /\ NetOfInput(InputIndexOf(l1.performer)).casino # 0
         /\ NetOfInput(InputIndexOf(l1.performer)).slot # 0

\* C9 as claimed: an ancestor's losing amount is the base times its losing
\* rate's excess over the preceding level's, emitted only when positive.
C9_PrecedingLevelLosing ==
    Done =>
        \A l \in UpperLosingLines :
            LET lin == Lineage(l.performer)
                prev == PrevLevel(l.performer, lin, LineagePos(l.performer, l.who))
                rateDiff == allUsers[l.who].losingRate - allUsers[prev].losingRate
            IN  /\ rateDiff > 0
                /\ l.comm = l.amount * rateDiff

\* C9 amended: the losing rate of an ancestor is compared with the highest
\* losing rate among the performer and the levels below it.  The ancestor
\* gets a losing amount exactly when its rate exceeds it (and the base is
\* not 0), of base * excess/100; a negative base gives a negative amount.
C9_HighestBelowLosing ==
    Done =>
        \A k \in MemberInputs :
            LET p == inputs[k].performerId
                lin == Lineage(p)
                base == OwnRateLosingBase(k)
            IN  \A n \in 1 .. Len(lin) :
                    LET excess == allUsers[lin[n]].losingRate
                                  - MaxBelow(p, lin, n, "losing")
                        ls == {l \in UpperLosingLines :
                                  l.performer = p /\ l.who = lin[n]}
                    IN  IF excess > 0 /\ base # 0
                        THEN /\ ls # {}
                             /\ \A l \in ls : l.comm = base * excess
                        ELSE ls = {}

\* A negative losing amount at an ancestor that follows a lower-rated level.
C9_Witness ==
    /\ Done
    /\ \E l \in UpperLosingLines :
         /\ l.comm < 0
         /\ LET lin == Lineage(l.performer)
                n == LineagePos(l.performer, l.who)
            IN  allUsers[PrevLevel(l.performer, lin, n)].losingRate
                  < MaxBelow(l.performer, lin, n, "losing")

LosingLinesOf(performerId) == LinesOf(performerId, "losing")

\* C10 as claimed: an input with casino 0, slot 0 and losing L is processed
\* on the losing base L, at the performer and at every ancestor.
C10_ZeroFeesBaseIsInput ==
    Done =>
        \A k \in MemberInputs :
            (inputs[k].amounts.casino = 0 /\ inputs[k].amounts.slot = 0) =>
                \A l \in LosingLinesOf(inputs[k].performerId) :
                    l.amount = inputs[k].amounts.losing * RateDen

\* C10 amended: with NET casino 0 and NET slot 0 the losing base is the NET
\* losing amount exactly, at the performer and at every ancestor, and each
\* losing amount is that base times the rate (performer) or the rate's
\* excess over the highest rate below (ancestor), over 100.
C10_ZeroNetBaseIsNetLosing ==
    Done =>
        \A k \in MemberInputs :
            (NetOfInput(k).casino = 0 /\ NetOfInput(k).slot = 0) =>
                LET p == inputs[k].performerId
                    L == NetOfInput(k).losing * RateDen
                IN  \A l \in LosingLinesOf(p) :
                        /\ l.amount = L
                        /\ l.comm
                             = L * (IF l.role = "self"
                                    THEN allUsers[p].losingRate
                                    ELSE allUsers[l.who].losingRate
                                         - MaxBelow(p, Lineage(p),
                                               LineagePos(p, l.who), "losing"))

\* A losing-only input of a performer with rated casino/slot, paid upward.
C10_Witness ==
    /\ Done
    /\ \E k \in MemberInputs :
         /\ inputs[k].amounts.casino = 0 /\ inputs[k].amounts.slot = 0
         /\ NetOfInput(k).casino = 0 /\ NetOfInput(k).slot = 0
         /\ NetOfInput(k).losing > 0
         /\ allUsers[inputs[k].performerId].casinoRate > 0
         /\ \E l \in LosingLinesOf(inputs[k].performerId) : l.role = "upper"

BreakdownLines(entry) ==
    {entry.breakdown[j] : j \in 1 .. Len(entry.breakdown)}

\* C11 as claimed: a role self entry appears only in the zero-rate case; a
\* performer with a positive rate on a channel has no self entry there.
C11_SelfOnlyZeroRate ==
    Done =>
        \A k \in 1 .. Len(result) :
            result[k].role = "self"
                => RateOf(allUsers[result[k].userId], result[k].source) = 0

\* C11 amended: the performer's own commission is emitted for every rate.
\* For every input whose processed amount on a channel is not 0 the
\* performer has an entry of that channel whose breakdown holds the own
\* line of amount * rate/100; the entry has role self whenever that own
\* line is the first contribution to it.
C11_SelfForEveryRate ==
    Done =>
        \A k \in MemberInputs : \A type \in TypeSet :
            ProcessedAmount(k, type) # 0 =>
                LET p == inputs[k].performerId
                IN  \E e \in Entries(p, type) :
                        /\ \E l \in BreakdownLines(result[e]) :
                              /\ l.role = "self"
                              /\ l.performer = p
                              /\ l.comm = ProcessedAmount(k, type)
                                            * RateOf(allUsers[p], type)
                        /\ result[e].breakdown[1].role = "self"
                              => result[e].role = "self"

\* A performer with a positive casino rate holds a self entry of its own
\* positive commission.
C11_Witness ==
    /\ Done
    /\ \E k \in 1 .. Len(result) :
         /\ result[k].role = "self"
         /\ result[k].source = "casino"
         /\ allUsers[result[k].userId].casinoRate > 0
         /\ result[k].amount > 0

\* The lines one performer's input left at one member on a channel.
LinesAt(performerId, who, type) ==
    {l \in LinesOf(performerId, type) : l.who = who /\ l.role = "upper"}

\* C12 as claimed: when the casino (or slot) volume of a leaf is greater
\* than 0, every ancestor of its lineage has an entry of that channel; a
\* level with a zero differential is reported with a zero amount.
C12_EveryLevelHasEntry ==
    Done =>
        \A k \in MemberInputs : \A type \in {"casino", "slot"} :
            LET p == inputs[k].performerId
                lin == Lineage(p)
            IN  (Children(p) = {} /\ ProcessedAmount(k, type) > 0) =>
                    \A n \in 1 .. Len(lin) : Entries(lin[n], type) # {}

\* C12 amended: an ancestor is reported for a channel exactly when its rate
\* exceeds the highest rate among the performer and the levels below it;
\* an ancestor with a zero (or negative) differential gets no line and no
\* zero-amount entry from that input, so the lineage levels that are paid
\* nothing are absent from the result.
C12_LevelPresentIffHigher ==
    Done =>
        \A k \in MemberInputs : \A type \in {"casino", "slot"} :
            LET p == inputs[k].performerId
                lin == Lineage(p)
            IN  ProcessedAmount(k, type) # 0 =>
                    \A n \in 1 .. Len(lin) :
                        /\ LinesAt(p, lin[n], type) # {}
                              <=> RateOf(allUsers[lin[n]], type)
                                    > MaxBelow(p, lin, n, type)
                        /\ \A l \in LinesAt(p, lin[n], type) : l.comm # 0

\* A leaf with casino volume under a parent of the same casino rate: the
\* parent has no casino entry, the grandparent with a higher rate has one.
C12_Witness ==
    /\ Done
    /\ \E k \in MemberInputs :
         LET p == inputs[k].performerId
             lin == Lineage(p)
         IN  /\ Children(p) = {}
             /\ ProcessedAmount(k, "casino") > 0
             /\ Len(lin) = 2
             /\ allUsers[lin[1]].casinoRate = allUsers[p].casinoRate
             /\ Entries(lin[1], "casino") = {}
             /\ Entries(lin[2], "casino") # {}

\* ------------------------------------------------------ two calls in a row
SecondDone == Done /\ calls # <<>>

\* What a result list says about one member: (userId, source, role, amount).
EntrySet(res, u) ==
    {[userId |-> res[k].userId, source |-> res[k].source,
      role |-> res[k].role, amount |-> res[k].amount] :
        k \in {j \in 1 .. Len(res) : res[j].userId = u}}

\* The performers whose input the second call no longer has.
RemovedPerformers ==
    {calls[1].inputs[k].performerId : k \in 1 .. Len(calls[1].inputs)}
      \ {inputs[k].performerId : k \in 1 .. Len(inputs)}

AncestorsOf(id) ==
    IF id \in UserIds
    THEN {Lineage(id)[k] : k \in 1 .. Len(Lineage(id))}
    ELSE {}

\* C13: taking one input out of the batch changes only the entries of the
\* removed performer and of its ancestors; for every other member the
\* entries (userId, source, role, amount) are the same with and without it.
C13_BatchIndependence ==
    SecondDone =>
        \A r \in RemovedPerformers :
            \A u \in UserIds \ ({r} \cup AncestorsOf(r)) :
                EntrySet(calls[1].result, u) = EntrySet(result, u)

\* The input of a member was taken out, the result changed, and a member
\* outside its lineage has entries.
C13_Witness ==
    /\ SecondDone
    /\ result # calls[1].result
    /\ \E r \in RemovedPerformers \cap UserIds :
         \E u \in UserIds \ ({r} \cup AncestorsOf(r)) :
             EntrySet(result, u) # {}

C15_UnknownPerformerSkipped ==
    /\ Done =>
          /\ \A l \in AllLines : l.performer \in UserIds
          /\ \A k \in 1 .. Len(result) : result[k].userId \in UserIds
    /\ (SecondDone /\ RemovedPerformers # {}
           /\ RemovedPerformers \cap UserIds = {})
          => result = calls[1].result

\* A batch with an unknown performer ahead of a member's input, computed
\* with and without the unknown input.
C15_Witness ==
    /\ SecondDone
    /\ RemovedPerformers = {UnknownId}
    /\ calls[1].inputs[1].performerId = UnknownId
    /\ result # <<>>
    /\ result = calls[1].result

\* The last member a performer's parent chain reaches.
ChainTop(performerId) ==
    IF Lineage(performerId) = <<>> THEN performerId
    ELSE Lineage(performerId)[Len(Lineage(performerId))]

\* C16: when a member on the performer's parent chain has a parentId that
\* matches no member, the walk stops there without error: the performer and
\* the ancestors up to the break receive what they are due, and nothing of
\* that input goes to any other member.
C16_WalkStopsAtBreak ==
    Done =>
        \A k \in MemberInputs :
            LET p == inputs[k].performerId
                lin == Lineage(p)
            IN  allUsers[ChainTop(p)].parentId = UnknownId =>
                    /\ \A l \in AllLines :
                          l.performer = p
                            => l.who \in {p} \cup AncestorsOf(p)
                    /\ \A type \in TypeSet :
                          ProcessedAmount(k, type) # 0 =>
                              /\ \E l \in LinesOf(p, type) :
                                    l.role = "self" /\ l.who = p
                              /\ \A n \in 1 .. Len(lin) :
                                    RateOf(allUsers[lin[n]], type)
                                        > MaxBelow(p, lin, n, type)
                                      => LinesAt(p, lin[n], type) # {}

\* A performer under a parent whose own parentId names a missing member; the
\* parent is paid, and a higher-rated member outside the chain is not.
C16_Witness ==
    /\ Done
    /\ \E k \in MemberInputs :
         LET p == inputs[k].performerId
         IN  /\ Len(Lineage(p)) = 1
             /\ allUsers[ChainTop(p)].parentId = UnknownId
             /\ LinesAt(p, ChainTop(p), "casino") # {}
             /\ \E u \in UserIds \ ({p} \cup AncestorsOf(p)) :
                  /\ allUsers[u].casinoRate > allUsers[ChainTop(p)].casinoRate
                  /\ EntrySet(result, u) = {}

RECURSIVE ReachesUp(_, _, _)
ReachesUp(from, to, fuel) ==
    IF fuel = 0 \/ from \notin DOMAIN db THEN FALSE
    ELSE \/ db[from].parentId = to
         \/ ReachesUp(db[from].parentId, to, fuel - 1)

\* C18: after any sequence of create and edit submissions, every member
\* with a parent has casinoRate, slotRate and losingRate each at most the
\* parent's current rate of that channel.
C18_RatesWithinParent ==
    \A u \in DOMAIN db :
        db[u].parentId \in DOMAIN db =>
            /\ db[u].casinoRate <= db[db[u].parentId].casinoRate
            /\ db[u].slotRate <= db[db[u].parentId].slotRate
            /\ db[u].losingRate <= db[db[u].parentId].losingRate

\* C19: after any sequence of create and edit submissions, no member is
\* reachable from itself by following parentId links.
C19_ParentLinksAcyclic ==
    \A u \in DOMAIN db : ~ReachesUp(u, u, Cardinality(UserIds))

\* ------------------------------------------------------- the calculator
\* C20: the engine is started only in the step in which getAllUsers of this
\* handleCalculate resolves, and it is given the member list as the
\* collection holds it at that moment, whatever the users state was.
C20_EngineGetsFreshUsers ==
    [][(pc # "net" /\ pc' = "net")
          => /\ page.at = "loading"
             /\ page'.at = "engine"
             /\ page'.freshUsers = db
             /\ allUsers' = db]_vars

\* The engine runs on a freshly loaded member list that differs from the
\* users state the handler was started with.
C20_Witness ==
    /\ page.at = "engine"
    /\ pc = "done"
    /\ result # <<>>
    /\ allUsers = page.freshUsers
    /\ page.seenUsers # EmptyDb
    /\ page.seenUsers # allUsers

\* ------------------------------------------------ the rules of the engine
\* C22: for each processed NET amount and channel the performer receives
\* amount * ownRate/100 as a self contribution; going up the parent chain,
\* an ancestor whose rate exceeds the highest rate below it receives
\* amount * (its rate - that highest rate)/100, and an ancestor whose rate
\* is not higher receives nothing.
C22_SelfAndDifferentials ==
    Done =>
        \A k \in MemberInputs : \A type \in TypeSet :
            LET p == inputs[k].performerId
                lin == Lineage(p)
                A == ProcessedAmount(k, type)
                selfs == {l \in LinesOf(p, type) : l.role = "self"}
            IN  A # 0 =>
                    /\ Cardinality(selfs) = 1
                    /\ \A l \in selfs :
                          /\ l.who = p
                          /\ l.amount = A
                          /\ l.comm = A * RateOf(allUsers[p], type)
                    /\ \A n \in 1 .. Len(lin) :
                          LET excess == RateOf(allUsers[lin[n]], type)
                                        - MaxBelow(p, lin, n, type)
                          IN  IF excess > 0
                              THEN /\ Cardinality(LinesAt(p, lin[n], type)) = 1
                                   /\ \A l \in LinesAt(p, lin[n], type) :
                                         /\ l.amount = A
                                         /\ l.comm = A * excess
                              ELSE LinesAt(p, lin[n], type) = {}

\* Rates 0.5 / 1.0 / 1.0 from the performer upward: the performer and the
\* parent are paid 0.5% each, the top member nothing.
C22_Witness ==
    /\ Done
    /\ \E k \in MemberInputs :
         LET p == inputs[k].performerId
             lin == Lineage(p)
             A == ProcessedAmount(k, "casino")
         IN  /\ A > 0
             /\ Len(lin) = 2
             /\ allUsers[p].casinoRate > 0
             /\ allUsers[p].casinoRate < allUsers[lin[1]].casinoRate
             /\ allUsers[lin[1]].casinoRate = allUsers[lin[2]].casinoRate
             /\ \E l \in LinesAt(p, lin[1], "casino") :
                  l.comm = A * allUsers[p].casinoRate
             /\ LinesAt(p, lin[2], "casino") = {}

\* C23: for every input of an existing performer the amounts processed are
\* NET = own input minus the inputs of the performer's direct children, per
\* channel (a child without input counts as 0); an input whose NET is 0 on
\* all three channels produces nothing.
C23_NetProcessed ==
    Done =>
        \A k \in MemberInputs :
            LET p == inputs[k].performerId
                net == NetOfInput(k)
                mine == {j \in 1 .. Len(netInputs) : netInputs[j].performerId = p}
            IN  IF net = ZeroAmounts
                THEN /\ mine = {}
                     /\ \A l \in AllLines : l.performer # p
                ELSE /\ Cardinality(mine) = 1
                     /\ \A j \in mine : netInputs[j].amounts = net
                     /\ \A l \in LinesOf(p, "casino") :
                           l.amount = net.casino * RateDen
                     /\ \A l \in LinesOf(p, "slot") :
                           l.amount = net.slot * RateDen

\* A parent whose input equals its child's is processed with NET 0 and
\* leaves no line, while the child's input is paid up to the parent; and a
\* parent whose NET differs from its input.
C23_Witness ==
    /\ Done
    /\ \E k, c \in MemberInputs :
         /\ allUsers[inputs[c].performerId].parentId = inputs[k].performerId
         /\ NetOfInput(k) = ZeroAmounts
         /\ \A l \in AllLines : l.performer # inputs[k].performerId
         /\ \E l \in AllLines :
              l.performer = inputs[c].performerId
                /\ l.who = inputs[k].performerId

RECURSIVE SumComm(_, _)
SumComm(breakdown, j) ==
    IF j > Len(breakdown) THEN 0
    ELSE breakdown[j].comm + SumComm(breakdown, j + 1)

\* C24: the result holds at most one entry per (userId, source), and the
\* entry's amount is the sum of every contribution generated for that
\* member and channel across the inputs of the batch.
C24_OneEntryPerKeySummed ==
    Done =>
        /\ \A a, b \in 1 .. Len(result) :
              (result[a].userId = result[b].userId
                 /\ result[a].source = result[b].source) => a = b
        /\ \A k \in 1 .. Len(result) :
              /\ result[k].amount = SumComm(result[k].breakdown, 1)
              /\ \A l \in BreakdownLines(result[k]) :
                    l.who = result[k].userId /\ l.type = result[k].source
        /\ \A j \in MemberInputs : \A type \in TypeSet :
              ProcessedAmount(j, type) # 0 =>
                  Entries(inputs[j].performerId, type) # {}

\* An entry that sums an own contribution and one from another input, both
\* different from 0.
C24_Witness ==
    /\ Done
    /\ \E k \in 1 .. Len(result) :
         /\ Len(result[k].breakdown) = 2
         /\ result[k].breakdown[1].comm # 0
         /\ result[k].breakdown[2].comm # 0
         /\ result[k].breakdown[1].performer # result[k].breakdown[2].performer
         /\ result[k].userId \in LinePerformers(result[k])

\* C25: the losing base of a processed input is losing NET minus
\* (casino NET * performer.casinoRate/100 + slot NET * performer.slotRate/100),
\* computed once from the performer's own rates and used unchanged for the
\* performer's losing commission and for every ancestor's differential.
C25_OneLosingBase ==
    Done =>
        \A k \in MemberInputs :
            LET p == inputs[k].performerId
                base == NetOfInput(k).losing * RateDen
                        - (NetOfInput(k).casino * allUsers[p].casinoRate
                           + NetOfInput(k).slot * allUsers[p].slotRate)
            IN  /\ \A l \in LosingLinesOf(p) : l.amount = base
                /\ base # 0 =>
                      \E l \in LosingLinesOf(p) :
                          /\ l.role = "self"
                          /\ l.comm = base * allUsers[p].losingRate

\* A losing base below zero (the casino and slot commission exceed the
\* losing amount), used for the performer and for an ancestor.
C25_Witness ==
    /\ Done
    /\ \E k \in MemberInputs :
         LET p == inputs[k].performerId
         IN  /\ NetOfInput(k).casino > 0
             /\ OwnRateLosingBase(k) < 0
             /\ \E l \in LosingLinesOf(p) : l.role = "self"
             /\ \E l \in LosingLinesOf(p) :
                  l.role = "upper" /\ l.amount = OwnRateLosingBase(k)

RECURSIVE SumLines(_)
SumLines(S) ==
    IF S = {} THEN 0
    ELSE LET l == CHOOSE x \in S : TRUE
         IN  l.comm + SumLines(S \ {l})

\* C29: conservation.  For every processed NET amount and channel the
\* performer's self contribution and the upper contributions generated from
\* it add up to amount * M/100, M the highest rate of that channel among
\* the performer and its ancestors, in whatever order the rates come.
C29_Conservation ==
    Done =>
        \A k \in MemberInputs : \A type \in TypeSet :
            LET p == inputs[k].performerId
                lin == Lineage(p)
                M == MaxOf({RateOf(allUsers[p], type)}
                            \cup {RateOf(allUsers[lin[n]], type) :
                                     n \in 1 .. Len(lin)})
            IN  SumLines(LinesOf(p, type)) = ProcessedAmount(k, type) * M

\* A chain whose rates do not rise steadily (the parent is rated below the
\* performer, the grandparent above), and a losing amount with a part of a
\* currency unit as commission.
C29_Witness ==
    /\ Done
    /\ \E k \in MemberInputs :
         LET p == inputs[k].performerId
             lin == Lineage(p)
         IN  /\ Len(lin) = 2
             /\ allUsers[lin[1]].losingRate < allUsers[p].losingRate
             /\ allUsers[p].losingRate < allUsers[lin[2]].losingRate
             /\ ProcessedAmount(k, "losing") # 0
             /\ SumLines(LinesOf(p, "losing")) % MoneyDen # 0
             /\ Cardinality(LinesOf(p, "losing")) = 2

\* C30 as claimed: the role tells the kinds of money apart: a self entry
\* holds only the member's own commission, an upper entry only
\* differentials from descendants; the two are never summed into one entry.
C30_RolesNeverMixed ==
    Done =>
        \A k \in 1 .. Len(result) :
            \A l \in BreakdownLines(result[k]) : l.role = result[k].role

\* C30 amended: an entry belongs to a (userId, source) pair and has the
\* role of the first contribution made to it.  For a member who is both a
\* performer and an ancestor of another performer the own commission and
\* the differentials on one channel are summed into one entry: role self
\* when the member's own input is processed first, role upper otherwise.
C30_RoleOfFirstContribution ==
    Done =>
        \A k \in 1 .. Len(result) :
            /\ result[k].role = result[k].breakdown[1].role
            /\ \A l \in BreakdownLines(result[k]) :
                  l.role = (IF l.performer = result[k].userId
                            THEN "self" ELSE "upper")
            /\ \A l \in AllLines :
                  (l.who = result[k].userId /\ l.type = result[k].source)
                    => l \in BreakdownLines(result[k])

\* The performer's input comes after its child's: the performer's entry has
\* role upper and holds the performer's own commission as well.
C30_Witness ==
    /\ Done
    /\ \E k \in 1 .. Len(result) :
         /\ result[k].role = "upper"
         /\ \E l \in BreakdownLines(result[k]) :
              l.role = "self" /\ l.comm # 0
         /\ \E l \in BreakdownLines(result[k]) :
              l.role = "upper" /\ l.comm # 0

\* ------------------------------------------------ the logs of the calculator
\* C21: log round trip.  When the calculator is opened with the id of a log
\* that handleCalculate has stored, loadLogData leaves inputs and
\* selectedMasterId at the values the log's results were computed with, also
\* when no master was selected or no amount was entered.
C21_LogRoundTrip ==
    [][getDocResolved
         => /\ page'.inputs = page.reading[1].inputs
            /\ page'.selectedMasterId = page.reading[1].selectedMasterId]_vars

\* C28: when handleCalculate finishes with results set and without the
\* alert, a log holding exactly those results has been written to
\* calculation_logs; a failed write of the log does not pass unnoticed.
C28_LogWritten ==
    [][(page.at = "saving" /\ page'.at = "idle" /\ page'.hasResults
          /\ ~page'.alerted)
         => \E data \in logs' : data.results = page'.results]_vars

\* ------------------------------------------------ the tree of the members
\* C26: handleDelete never deletes a member that has a child in the list of
\* the page; after any creates, edits and deletes made through the page
\* with its list up to date, every parentId other than null is the id of a
\* member that still exists.
C26_ParentsExist ==
    \A u \in DOMAIN db :
        db[u].parentId # NoParent => db[u].parentId \in DOMAIN db

\* A member has been deleted while another member has a parent, and a
\* delete has been refused.
C26_Witness ==
    /\ form.deleteResult = "deleted"
    /\ \E u \in DOMAIN db : db[u].parentId # NoParent
    /\ Cardinality(DOMAIN db) = 2

\* C27: the level follows the parent.  After any creates and edits made
\* through the form a member without a parent has level LEVELS[0], a member
\* with a parent has the level right below its parent's present level, and
\* no member is below a parent of the last level: no chain of parents is
\* longer than the four LEVELS.
C27_LevelsFollowParents ==
    \A u \in DOMAIN db :
        IF db[u].parentId = NoParent THEN db[u].level = LEVELS[1]
        ELSE /\ db[u].parentId \in DOMAIN db
             /\ db[db[u].parentId].level # LEVELS[Len(LEVELS)]
             /\ db[u].level = getNextLevel(db[db[u].parentId].level)

====
